---- MODULE Spec2Model ----
(***************************************************************************)
(* A model of deflix-stremio's torrent search: the orchestrator            *)
(* Client.FindMagnets (pkg/imdb2torrent/client.go), the rate-limited ibit  *)
(* source ibitClient.Check and the gob cache entries it reads and writes   *)
(* (pkg/imdb2torrent/cache.go).                                            *)
(*                                                                         *)
(* A string is modelled as the sequence of its tokens; a []Result as a     *)
(* sequence of records (a nil slice and an empty slice are both <<>>);     *)
(* time as an integer clock.                                               *)
(***************************************************************************)
EXTENDS Integers, Sequences, FiniteSets, TLC

\* ------------------------------------------------------------ bounds
\* Invocations of ibitClient.Check in a behaviour: one by each FindMagnets call,
\* the others made directly.
MaxChecks == 2
\* Rows a search page may list.
MaxLinks == 1
\* The clock runs from 0 to MaxTime.
MaxTime == 1
\* The cacheAge handed to newIbitClient (a configuration value).
cacheAge == 1

\* ------------------------------------------------------------ constants
torrentSiteCount == 3

FastSources == {"YTS", "TPB", "1337x"}
IDs == {"tt1", "tt2"}

\* ------------------------------------------------------------ data
Result(title, quality, infoHash, magnet) ==
    [Title |-> title, Quality |-> quality, InfoHash |-> infoHash, MagnetURL |-> magnet]

NilErr == [nil |-> TRUE, msg |-> <<>>]
Errorf(segments) == [nil |-> FALSE, msg |-> segments]

\* imdbID + "-ibit"
CacheKey(imdbID) == <<imdbID, "-ibit">>
CacheKeys == {CacheKey(x) : x \in IDs}

\* ------------------------------------------------------------ strings
\* The tokens that stand for long lists of trackers in a magnet: one of 64 KiB,
\* and one that brings the entry of its result to 65,530 bytes.
LongTrackers == "udp (64 KiB of trackers)"
NearTrackers == "udp (trackers up to the limit)"

\* The bytes of a token of a text; the cam marker has a warning sign of 6 bytes.
Bytes(tok) ==
    CASE tok = LongTrackers -> 64 * 1024
      [] tok = NearTrackers -> 65267
      [] tok = " (cam)" -> 12
      [] OTHER -> Len(tok)

RECURSIVE TextLen(_)
TextLen(text) == IF text = <<>> THEN 0 ELSE Bytes(Head(text)) + TextLen(Tail(text))

\* ------------------------------------------------------------ cache.go
\* A gob stream is modelled as the sequence of its items: the type
\* descriptions, the length of the value message, its type id, field deltas,
\* values and struct ends.
Item(kind, n, text) == [kind |-> kind, n |-> n, text |-> text]

\* No value stored under a key (HasGet's ok = false).
NoBytes == <<>>
\* Bytes that are no gob stream of a cacheEntry.
JunkBytes == <<Item("junk", 0, <<>>)>>

\* gob's unsigned integer: one byte below 128, else a byte count and the bytes.
UintLen(n) ==
    IF n < 128 THEN 1 ELSE IF n < 256 THEN 2 ELSE IF n < 65536 THEN 3
    ELSE IF n < 16777216 THEN 4 ELSE 5

\* The bytes of the messages that describe the types cacheEntry, Time,
\* []imdb2torrent.Result and Result, sent before the first value.
GobTypesLen == 175

\* The bytes of an item: a time is a length and the 15 bytes of
\* Time.MarshalBinary, a string its length and its bytes.
ItemLen(item) ==
    CASE item.kind = "types" -> GobTypesLen
      [] item.kind = "length" -> UintLen(item.n)
      [] item.kind = "typeid" -> 2
      [] item.kind = "delta" -> 1
      [] item.kind = "uint" -> UintLen(item.n)
      [] item.kind = "time" -> 16
      [] item.kind = "string" -> UintLen(TextLen(item.text)) + TextLen(item.text)
      [] OTHER -> 1

RECURSIVE ItemsLen(_)
ItemsLen(items) == IF items = <<>> THEN 0 ELSE ItemLen(Head(items)) + ItemsLen(Tail(items))

\* The four string fields of a Result, in the order of the struct.
ResultTexts(r) ==
    <<IF r.Title = "" THEN <<>> ELSE <<r.Title>>, r.Quality, r.InfoHash, r.MagnetURL>>

\* gob's struct of strings from field k on: a field with the zero value is
\* left out, another is sent with its distance to the field sent before; the
\* struct ends with a zero delta.
RECURSIVE EncodeFields(_, _, _)
EncodeFields(texts, k, last) ==
    IF k > Len(texts) THEN <<Item("end", 0, <<>>)>>
    ELSE IF texts[k] = <<>> THEN EncodeFields(texts, k + 1, last)
    ELSE <<Item("delta", k - last, <<>>), Item("string", 0, texts[k])>>
           \o EncodeFields(texts, k + 1, k)

RECURSIVE EncodeResults(_)
EncodeResults(data) ==
    IF data = <<>> THEN <<>>
    ELSE EncodeFields(ResultTexts(Head(data)), 1, 0) \o EncodeResults(Tail(data))

\* gob's field Results: left out when the slice is empty, else field delta,
\* element count, elements.
EncodeSlice(data) ==
    IF data = <<>> THEN <<>>
    ELSE <<Item("delta", 1, <<>>), Item("uint", Len(data), <<>>)>> \o EncodeResults(data)

\* The value message of a cacheEntry without its length.
EncodeValue(created, data) ==
    <<Item("typeid", 0, <<>>), Item("delta", 1, <<>>), Item("time", created, <<>>)>>
      \o EncodeSlice(data) \o <<Item("end", 0, <<>>)>>

\* gob-encodes cacheEntry{Created: time.Now(), Results: data}.
NewCacheEntry(created, data) ==
    <<Item("types", 0, <<>>), Item("length", ItemsLen(EncodeValue(created, data)), <<>>)>>
      \o EncodeValue(created, data)

NoTexts == <<<<>>, <<>>, <<>>, <<>>>>

\* gob's decoding of a struct of strings from item p on, the field sent
\* before being `field`: ok is FALSE when the items are no such struct.
RECURSIVE DecodeFields(_, _, _, _)
DecodeFields(items, p, field, texts) ==
    IF p > Len(items) THEN [ok |-> FALSE, texts |-> texts, next |-> p]
    ELSE IF items[p].kind = "end" THEN [ok |-> TRUE, texts |-> texts, next |-> p + 1]
    ELSE IF /\ items[p].kind = "delta" /\ items[p].n > 0 /\ field + items[p].n <= 4
            /\ p < Len(items) /\ items[p + 1].kind = "string"
    THEN DecodeFields(items, p + 2, field + items[p].n,
                      [texts EXCEPT ![field + items[p].n] = items[p + 1].text])
    ELSE [ok |-> FALSE, texts |-> texts, next |-> p]

\* The Result of its four texts.
TextsResult(texts) ==
    [Title |-> IF texts[1] = <<>> THEN "" ELSE texts[1][1], Quality |-> texts[2],
     InfoHash |-> texts[3], MagnetURL |-> texts[4]]

\* gob's decoding of `count` elements of []Result from item p on.
RECURSIVE DecodeResults(_, _, _, _)
DecodeResults(items, p, count, results) ==
    IF count = 0 THEN [ok |-> TRUE, results |-> results, next |-> p]
    ELSE LET one == DecodeFields(items, p, 0, NoTexts)
         IN  IF ~one.ok THEN [ok |-> FALSE, results |-> results, next |-> p]
             ELSE DecodeResults(items, one.next, count - 1,
                                Append(results, TextsResult(one.texts)))

NoEntry == [ok |-> FALSE, Results |-> <<>>, Created |-> 0]

\* decoder.Decode(&entry): the fields that were sent are set, the others keep
\* their zero value; ok is FALSE when the bytes are no message of a cacheEntry.
DecodeEntry(data) ==
    IF \/ Len(data) < 6
       \/ data[1].kind # "types" \/ data[2].kind # "length" \/ data[3].kind # "typeid"
       \/ data[2].n # ItemsLen(SubSeq(data, 3, Len(data)))
       \/ data[4].kind # "delta" \/ data[4].n # 1 \/ data[5].kind # "time"
    THEN NoEntry
    ELSE IF data[6].kind = "end"
    THEN IF Len(data) = 6 THEN [ok |-> TRUE, Results |-> <<>>, Created |-> data[5].n]
         ELSE NoEntry
    ELSE IF Len(data) < 8 \/ data[6].kind # "delta" \/ data[6].n # 1 \/ data[7].kind # "uint"
    THEN NoEntry
    ELSE LET list == DecodeResults(data, 8, data[7].n, <<>>)
         IN  IF list.ok /\ list.next = Len(data) /\ data[list.next].kind = "end"
             THEN [ok |-> TRUE, Results |-> list.results, Created |-> data[5].n]
             ELSE NoEntry

\* Mutant: the decoder loses the creation time.
FromCacheEntryNoTime(data) ==
    IF DecodeEntry(data).ok
    THEN [Results |-> DecodeEntry(data).Results, Created |-> 0, err |-> NilErr]
    ELSE [Results |-> <<>>, Created |-> 0, err |-> Errorf(<<"Couldn't decode cacheEntry">>)]

\* gob-decodes; err is non-nil when the bytes are no encoded cacheEntry.
FromCacheEntry(data) ==
    IF DecodeEntry(data).ok
    THEN [Results |-> DecodeEntry(data).Results, Created |-> DecodeEntry(data).Created,
          err |-> NilErr]
    ELSE [Results |-> <<>>, Created |-> 0, err |-> Errorf(<<"Couldn't decode cacheEntry">>)]

\* len(torrentsGob)
GobLen(torrentsGob) == ItemsLen(torrentsGob)

\* len(torrentsGob) > 64*1024, on which Check warns that Set will not store.
TooBig(torrentsGob) == GobLen(torrentsGob) > 64 * 1024

\* fastcache keeps a pair only when key, value and 4 bytes of lengths are
\* under 64 KiB.
Fits(key, value) == 4 + TextLen(key) + GobLen(value) < 64 * 1024

\* c.cache.Set: a pair that does not fit is not stored, and what the key had
\* stays; a pair that is stored overwrites the entries `evicted`, written
\* before it under other keys.
Set(c, key, value, evicted) ==
    IF Fits(key, value)
    THEN [k \in DOMAIN c |-> IF k = key THEN value ELSE IF k \in evicted THEN NoBytes ELSE c[k]]
    ELSE c

\* The offsets of the local time zone, in seconds east of UTC.
ZoneOffsets == {0, 1172, -60}

\* encoder.Encode fails when Time.MarshalBinary does (Go 1.14): on a zone
\* offset with a fraction of a minute, of -1 minute, or outside 16 bits of
\* minutes.
EncodeFails(offset) ==
    \/ offset % 60 # 0
    \/ offset \div 60 = -1
    \/ offset \div 60 < -32768 \/ offset \div 60 > 32767

Contains(s, tok) == \E k \in 1..Len(s) : s[k] = tok

\* strings.Index on tokens: the first position of tok, 0 when absent (Go: -1).
Index(s, tok) ==
    IF Contains(s, tok) THEN CHOOSE k \in 1..Len(s) : s[k] = tok /\ \A j \in 1..(k - 1) : s[j] # tok
    ELSE 0

\* strings.ToUpper on a hash token.
UpperTok(tok) ==
    CASE tok = "ab" -> "AB"
      [] tok = "cd" -> "CD"
      [] tok = "ef" -> "EF"
      [] tok = "gh" -> "GH"
      [] OTHER -> tok

ToUpper(s) == [k \in 1..Len(s) |-> UpperTok(s[k])]

\* strings.ReplaceAll(s, tok, "").
RECURSIVE Remove(_, _)
Remove(s, tok) ==
    IF s = <<>> THEN <<>>
    ELSE IF Head(s) = tok THEN Remove(Tail(s), tok)
    ELSE <<Head(s)>> \o Remove(Tail(s), tok)

\* strings.ReplaceAll(s, `\x26`, "&"): an escaped token becomes "&" and its rest.
UnescapeTok(tok) ==
    CASE tok = "\\x26dn=" -> <<"&", "dn=">>
      [] tok = "\\x26tr=" -> <<"&", "tr=">>
      [] OTHER -> <<tok>>

RECURSIVE Unescape(_)
Unescape(s) == IF s = <<>> THEN <<>> ELSE UnescapeTok(Head(s)) \o Unescape(Tail(s))

\* url.QueryEscape of a page title.
QueryEscape(title) ==
    CASE title = "Big Movie" -> "Big+Movie"
      [] OTHER -> title

\* regexp `<open>.+?<close>`: the leftmost match, non-greedy, with at least one
\* token between; the tokens between open and close, <<>> when nothing matches.
Between(s, open, close) ==
    LET i == Index(s, open)
        ends == IF i = 0 THEN {} ELSE {j \in (i + 2)..Len(s) : s[j] = close}
    IN  IF ends = {} THEN <<>>
        ELSE LET j == CHOOSE e \in ends : \A f \in ends : e <= f
             IN  SubSeq(s, i + 1, j - 1)

\* ------------------------------------------------------------ ibit: one detail page
\* The answer to a detail-page GET: a transport error, or a status and a body,
\* the body given by the magnet literal in its script and the title in its DOM.
DetailResponse(failed, status, readable, magnet, title) ==
    [failed |-> failed, status |-> status, readable |-> readable,
     magnet |-> magnet, title |-> title]

StatusOK == 200

\* Mutant: the 10bit marker is not looked for.
QualityNoBits(magnet) ==
    LET base == IF Contains(magnet, "720p") THEN <<"720p">>
                ELSE IF Contains(magnet, "1080p") THEN <<"1080p">>
                ELSE IF Contains(magnet, "2160p") THEN <<"2160p">>
                ELSE <<>>
    IN  IF base = <<>> THEN <<>>
        ELSE IF Contains(magnet, "HDCAM") THEN base \o <<" (cam)">> ELSE base

\* The quality the if-chain of Check derives from the magnet; <<>> when the
\* magnet names none of the three resolutions.
Quality(magnet) ==
    LET base == IF Contains(magnet, "720p") THEN <<"720p">>
                ELSE IF Contains(magnet, "1080p") THEN <<"1080p">>
                ELSE IF Contains(magnet, "2160p") THEN <<"2160p">>
                ELSE <<>>
        bits == IF Contains(magnet, "10bit") THEN base \o <<" 10bit">> ELSE base
    IN  IF base = <<>> THEN <<>>
        ELSE IF Contains(magnet, "HDCAM") THEN bits \o <<" (cam)">> ELSE bits

\* magnet2InfoHashRegex, the prefix and suffix trimmed, upper-cased.
InfoHashTier1(magnet) == ToUpper(Between(magnet, "btih:", "&"))

\* magnet2InfoHashRegexIbit, trimmed, "-" removed, upper-cased.
InfoHashTier2(magnet) == ToUpper(Remove(Between(magnet, "btih:", "\\x26dn="), "-"))

\* The magnet rebuilt from the second tier's hash, the title and the tail.
RebuiltMagnet(magnet, infoHash, title) ==
    LET magnetTailIndex == Index(magnet, "\\x26tr=")
    IN  <<"magnet:?xt=urn:", "btih:">> \o infoHash \o <<"&", "dn=", QueryEscape(title)>>
          \o Unescape(SubSeq(magnet, magnetTailIndex, Len(magnet)))

Skip == [keep |-> FALSE, result |-> Result("", <<>>, <<>>, <<>>)]
Keep(r) == [keep |-> TRUE, result |-> r]

\* Mutant: a second-tier hash that is empty after the stripping is kept.
ScrapePageKeepsEmptyHash(resp) ==
    IF resp.failed \/ resp.status # StatusOK \/ ~resp.readable THEN Skip
    ELSE IF resp.magnet = <<>> \/ resp.title = "" THEN Skip
    ELSE IF Quality(resp.magnet) = <<>> THEN Skip
    ELSE LET h1 == InfoHashTier1(resp.magnet)
             h2 == InfoHashTier2(resp.magnet)
         IN  IF h1 # <<>>
             THEN Keep(Result(resp.title, Quality(resp.magnet), h1, resp.magnet))
             ELSE IF Index(resp.magnet, "\\x26tr=") = 0 THEN Skip
             ELSE Keep(Result(resp.title, Quality(resp.magnet), h2,
                              RebuiltMagnet(resp.magnet, h2, resp.title)))

\* The body of Check's loop after the GET: the Result of a page, or Skip.
ScrapePage(resp) ==
    IF resp.failed \/ resp.status # StatusOK \/ ~resp.readable THEN Skip
    ELSE IF resp.magnet = <<>> \/ resp.title = "" THEN Skip
    ELSE IF Quality(resp.magnet) = <<>> THEN Skip
    ELSE LET h1 == InfoHashTier1(resp.magnet)
             h2 == InfoHashTier2(resp.magnet)
         IN  IF h1 # <<>>
             THEN Keep(Result(resp.title, Quality(resp.magnet), h1, resp.magnet))
             ELSE IF h2 = <<>> THEN Skip
             ELSE IF Index(resp.magnet, "\\x26tr=") = 0 THEN Skip
             ELSE Keep(Result(resp.title, Quality(resp.magnet), h2,
                              RebuiltMagnet(resp.magnet, h2, resp.title)))

\* ------------------------------------------------------------ inputs
\* Hrefs of the rows of a search page: none, a path, a path url.Parse rejects.
Hrefs == {"", "/torrent/1", "/torrent/%zz"}

RECURSIVE SeqsUpTo(_, _)
SeqsUpTo(S, n) ==
    IF n = 0 THEN {<<>>}
    ELSE LET shorter == SeqsUpTo(S, n - 1)
         IN  shorter \cup {Append(q, e) : q \in {r \in shorter : Len(r) = n - 1}, e \in S}

\* The answers to the search-page GET: a transport error, a status, a body
\* goquery can or cannot load, the hrefs of its ".torrents tr" rows.
SearchResponse(failed, status, parsable, rows) ==
    [failed |-> failed, status |-> status, parsable |-> parsable, rows |-> rows]

SearchResponses ==
    {SearchResponse(TRUE, 0, FALSE, <<>>), SearchResponse(FALSE, 429, FALSE, <<>>),
     SearchResponse(FALSE, StatusOK, FALSE, <<>>)}
      \cup {SearchResponse(FALSE, StatusOK, TRUE, rows) : rows \in SeqsUpTo(Hrefs, MaxLinks)}

MagnetTier1 ==
    <<"magnet:?xt=urn:", "btih:", "ab", "&", "dn=", "Big", "1080p", "&", "tr=", "udp">>
MagnetTier2 ==
    <<"magnet:?xt=urn:", "btih:", "cd", "-", "\\x26dn=", "Big", "2160p", "10bit", "\\x26tr=", "udp">>
\* A magnet with more than 64 KiB of trackers, and one whose entry is 65,530
\* bytes long.
MagnetLong ==
    <<"magnet:?xt=urn:", "btih:", "ef", "&", "dn=", "Big", "720p", "&", "tr=", LongTrackers>>
MagnetNear ==
    <<"magnet:?xt=urn:", "btih:", "ef", "&", "dn=", "Big", "720p", "&", "tr=", NearTrackers>>

DetailResponses ==
    {DetailResponse(TRUE, 0, FALSE, <<>>, ""),
     DetailResponse(FALSE, StatusOK, TRUE, MagnetTier1, "Big Movie"),
     DetailResponse(FALSE, StatusOK, TRUE, MagnetTier2, "Big Movie")}

\* The answers of detail pages with the long magnets.
LongResponses ==
    {DetailResponse(FALSE, StatusOK, TRUE, MagnetLong, "Big Movie"),
     DetailResponse(FALSE, StatusOK, TRUE, MagnetNear, "Big Movie")}

\* Magnets of detail pages for the page scraping: without a resolution
\* marker, without a hash, with a second-tier hash of separators only, with a
\* second-tier hash and no tracker tail, with two resolution markers, with the
\* cam marker, and with "2160p" and "10bit" alone.
MagnetNoResolution ==
    <<"magnet:?xt=urn:", "btih:", "ab", "&", "dn=", "Big", "480p", "&", "tr=", "udp">>
MagnetNoHash == <<"magnet:?xt=urn:", "dn=", "Big", "1080p">>
MagnetDashes ==
    <<"magnet:?xt=urn:", "btih:", "-", "\\x26dn=", "Big", "1080p", "\\x26tr=", "udp">>
MagnetNoTail == <<"magnet:?xt=urn:", "btih:", "cd", "\\x26dn=", "Big", "1080p">>
MagnetTwoResolutions ==
    <<"magnet:?xt=urn:", "btih:", "ef", "&", "dn=", "Big", "2160p", "10bit", "&", "tr=", "720p">>
MagnetCam ==
    <<"magnet:?xt=urn:", "btih:", "ab", "&", "dn=", "Big", "2160p", "10bit", "HDCAM", "&", "tr=", "udp">>
Magnet2160p10bit ==
    <<"magnet:?xt=urn:", "btih:", "gh", "&", "dn=", "Big", "2160p", "10bit", "&", "tr=", "udp">>

\* The answers to a detail-page GET for the page scraping: those above, a
\* status other than 200, a body that cannot be read, a page without magnet, a
\* page without title, and a page for each of the magnets.
ScrapeResponses ==
    DetailResponses \cup LongResponses
      \cup {DetailResponse(FALSE, 404, TRUE, MagnetTier1, "Big Movie"),
            DetailResponse(FALSE, StatusOK, FALSE, <<>>, ""),
            DetailResponse(FALSE, StatusOK, TRUE, <<>>, "Big Movie"),
            DetailResponse(FALSE, StatusOK, TRUE, MagnetTier1, "")}
      \cup {DetailResponse(FALSE, StatusOK, TRUE, magnet, "Big Movie") :
              magnet \in {MagnetNoResolution, MagnetNoHash, MagnetDashes, MagnetNoTail,
                          MagnetTwoResolutions, MagnetCam, Magnet2160p10bit}}

\* The links of a search page for the page scraping.
MaxPages == 2

ScrapeSearchResponses ==
    {SearchResponse(FALSE, StatusOK, TRUE, rows) :
        rows \in SeqsUpTo({"/torrent/1", "/torrent/%zz"}, MaxPages)}

\* ------------------------------------------------------------ state
VARIABLES
    now,        \* the wall clock at its last reading
    cache,      \* the fastcache shared by the sources: key -> bytes
    locked,     \* ibitClient.lock is held
    inv,        \* the invocations of ibitClient.Check
    calls,      \* FindMagnets calls started so far
    mpc,        \* where the latest FindMagnets call is
    callID,     \* its argument imdbID
    ibitInv,    \* the invocation of Check its ibit goroutine makes
    pending,    \* the fast goroutines that have not sent yet
    resChan, errChan,
    received,   \* the loop counter i of the collecting loop
    combinedResults, errs, dupRemovalRequired, returnErrors, closeChansOk,
    ret,        \* what the call returned
    offered,    \* the sources of this call in the order they reached their send
    resultLists, \* the result lists this call received, in order, each with its source
    commandLine, \* the flags passed on the command line: name -> text
    environ,     \* the environment of the process: variable name -> value
    flagValues,  \* what the flag variables point to
    cpc          \* where parseConfig is

ibitVars == <<cache, locked, inv>>
chanVars == <<pending, resChan, errChan>>
collectVars == <<received, combinedResults, errs, dupRemovalRequired, returnErrors,
                 closeChansOk, resultLists>>
callVars == <<calls, mpc, callID, ibitInv, ret>>
mainVars == <<callVars, chanVars, collectVars, offered>>
configVars == <<commandLine, environ, flagValues, cpc>>
vars == <<now, ibitVars, mainVars, configVars>>

\* ------------------------------------------------------------ parseConfig
MaxArgs == 2
MaxEnv == 2

\* The settings of the program, and its flags.
Settings ==
    {"bindAddr", "port", "streamURLaddr", "cachePath", "cacheMaxBytes", "baseURLyts",
     "baseURLtpb", "baseURL1337x", "baseURLibit", "logLevel", "rootURL"}

Flags == Settings \cup {"envPrefix"}

\* The flags defined with flag.Int.
IntFlags == {"port", "cacheMaxBytes"}

\* The default a flag is defined with.
Default(f) ==
    CASE f = "bindAddr" -> <<"localhost">>
      [] f = "port" -> 8080
      [] f = "streamURLaddr" -> <<"http://localhost:8080">>
      [] f = "cachePath" -> <<>>
      [] f = "cacheMaxBytes" -> 128 * 1024 * 1024
      [] f = "baseURLyts" -> <<"https://yts.mx">>
      [] f = "baseURLtpb" -> <<"https://thepiratebay.org">>
      [] f = "baseURL1337x" -> <<"https://1337x.to">>
      [] f = "baseURLibit" -> <<"https://ibit.am">>
      [] f = "logLevel" -> <<"debug">>
      [] f = "rootURL" -> <<"https://www.deflix.tv">>
      [] f = "envPrefix" -> <<>>

\* The settings parseConfig looks up in the environment, in its order.
EnvSettings ==
    <<"bindAddr", "port", "streamURLaddr", "cachePath", "cacheMaxBytes", "baseURLyts",
      "baseURLtpb", "baseURL1337x", "logLevel", "rootURL">>

\* The name parseConfig appends to the prefix for a setting.
EnvVar(s) ==
    CASE s = "bindAddr" -> "BIND_ADDR"
      [] s = "port" -> "PORT"
      [] s = "streamURLaddr" -> "STREAM_URL_ADDR"
      [] s = "cachePath" -> "CACHE_PATH"
      [] s = "cacheMaxBytes" -> "CACHE_MAX_BYTES"
      [] s = "baseURLyts" -> "BASE_URL_YTS"
      [] s = "baseURLtpb" -> "BASE_URL_TPB"
      [] s = "baseURL1337x" -> "BASE_URL_1337X"
      [] s = "logLevel" -> "LOG_LEVEL"
      [] s = "rootURL" -> "ROOT_URL"

Digits ==
    [c \in {"0", "1", "2", "3", "4", "5", "6", "7", "8", "9"} |->
        CASE c = "0" -> 0 [] c = "1" -> 1 [] c = "2" -> 2 [] c = "3" -> 3 [] c = "4" -> 4
          [] c = "5" -> 5 [] c = "6" -> 6 [] c = "7" -> 7 [] c = "8" -> 8 [] c = "9" -> 9]

RECURSIVE Decimal(_)
Decimal(s) ==
    IF s = <<>> THEN 0 ELSE 10 * Decimal(SubSeq(s, 1, Len(s) - 1)) + Digits[s[Len(s)]]

\* strconv.Atoi of a text without sign: 0 and an error unless it is digits.
Atoi(s) ==
    IF s # <<>> /\ \A k \in 1..Len(s) : s[k] \in DOMAIN Digits
    THEN [n |-> Decimal(s), err |-> FALSE]
    ELSE [n |-> 0, err |-> TRUE]

HasSuffix(s, c) == s # <<>> /\ s[Len(s)] = c

\* flag.Parse: a flag that was passed gets the value of its text.
FlagParse(args) ==
    [f \in Flags |->
        IF f \in DOMAIN args
        THEN IF f \in IntFlags THEN Atoi(args[f]).n ELSE args[f]
        ELSE Default(f)]

\* *envPrefix after "_" was appended where it was missing.
EnvPrefix(args) ==
    LET p == FlagParse(args)["envPrefix"]
    IN  IF p # <<>> /\ ~HasSuffix(p, "_") THEN p \o <<"_">> ELSE p

isArgSet(args, arg) == arg \in DOMAIN args

LookupEnv(env, name) ==
    IF name \in DOMAIN env THEN [val |-> env[name], ok |-> TRUE]
    ELSE [val |-> <<>>, ok |-> FALSE]

\* One "if !isArgSet" block of parseConfig, for setting s.
Overwrite(s, vals, args, env) ==
    LET found == LookupEnv(env, EnvPrefix(args) \o <<EnvVar(s)>>)
    IN  IF isArgSet(args, s) \/ ~found.ok THEN [vals |-> vals, fatal |-> FALSE]
        ELSE IF s \in IntFlags
        THEN [vals |-> [vals EXCEPT ![s] = Atoi(found.val).n],
              fatal |-> Atoi(found.val).err]
        ELSE [vals |-> [vals EXCEPT ![s] = found.val], fatal |-> FALSE]

\* The blocks from the k-th on; log.Fatal ends the process at once.
RECURSIVE OverwriteFrom(_, _, _, _)
OverwriteFrom(k, vals, args, env) ==
    IF k > Len(EnvSettings) THEN [vals |-> vals, fatal |-> FALSE]
    ELSE LET r == Overwrite(EnvSettings[k], vals, args, env)
         IN  IF r.fatal THEN r ELSE OverwriteFrom(k + 1, r.vals, args, env)

\* parseConfig: the flag variables when it ends, and whether it ended in log.Fatal.
parseConfig(args, env) ==
    OverwriteFrom(1, [FlagParse(args) EXCEPT !["envPrefix"] = EnvPrefix(args)], args, env)

NoArgs == [f \in {} |-> <<>>]
NoEnv == [n \in {} |-> <<>>]

\* parseConfig has run, with no flag passed and no variable set.
ConfigParsed ==
    /\ commandLine = NoArgs
    /\ environ = NoEnv
    /\ flagValues = parseConfig(NoArgs, NoEnv).vals
    /\ cpc = "parsed"

Invs == 1..MaxChecks

\* An invocation that was not started yet.
NoInv ==
    [pc |-> "none", imdbID |-> "", caller |-> "", torrentPageURLs |-> <<>>,
     results |-> <<>>, client |-> "", path |-> "", pages |-> <<>>,
     out |-> [results |-> <<>>, err |-> NilErr]]

Started == {i \in Invs : inv[i].pc # "none"}

\* The entries a persisted cache may hold when the process starts.
NoReturn == [returned |-> FALSE, results |-> <<>>, err |-> NilErr]

InitialBytes ==
    {NoBytes, JunkBytes,
     NewCacheEntry(0, <<Result("Big Movie", <<"1080p">>, <<"AB">>, MagnetTier1)>>)}

\* The state after NewClient; the cache is the one handed to it.
NotCalled(c) ==
    /\ now = 0
    /\ cache = c
    /\ locked = FALSE
    /\ inv = [i \in Invs |-> NoInv]
    /\ calls = 0
    /\ mpc = "idle"
    /\ callID = ""
    /\ ibitInv = 0
    /\ pending = {}
    /\ resChan = <<>>
    /\ errChan = <<>>
    /\ received = 0
    /\ combinedResults = <<>>
    /\ errs = <<>>
    /\ dupRemovalRequired = FALSE
    /\ returnErrors = FALSE
    /\ ret = NoReturn
    /\ offered = <<>>
    /\ closeChansOk = FALSE
    /\ resultLists = <<>>

Start(c) == NotCalled(c) /\ ConfigParsed

\* The process starts with an empty cache.
Init == Start([k \in CacheKeys |-> NoBytes])

\* The process starts with a cache loaded from disk.
InitPersisted == \E c \in [CacheKeys -> InitialBytes] : Start(c)

\* ------------------------------------------------------------ ibitClient.Check
\* What a reading of the clock may return: the time of the last reading or later.
Clock == now..MaxTime

\* c.httpClient, built by newIbitClient with Timeout: timeout.
SearchClient == "c.httpClient"
\* http.Get uses http.DefaultClient, which has no Timeout.
DetailClient == "http.DefaultClient"
HasTimeout(client) == client = "c.httpClient"

\* Mutant: an entry is still a hit at the age of cacheAge.
CacheHitLate(bytes, t) ==
    /\ bytes # NoBytes
    /\ FromCacheEntry(bytes).err.nil
    /\ t - FromCacheEntry(bytes).Created <= cacheAge

\* time.Since(created) < c.cacheAge, for bytes that were found and decode.
CacheHit(bytes, t) ==
    /\ bytes # NoBytes
    /\ FromCacheEntry(bytes).err.nil
    /\ t - FromCacheEntry(bytes).Created < cacheAge

\* The rows that carry a non-empty href (baseURL + href is kept as the href).
RECURSIVE PageURLs(_)
PageURLs(rows) ==
    IF rows = <<>> THEN <<>>
    ELSE IF Head(rows) = "" THEN PageURLs(Tail(rows))
    ELSE <<Head(rows)>> \o PageURLs(Tail(rows))

\* replaceURL fails when url.Parse rejects the URL.
ReplaceURLFails(pageURL) == pageURL = "/torrent/%zz"

\* History: what came of the request for a detail page, in the order of the
\* pages, kept like the locals until Check returns; NotRequested for a page
\* whose URL replaceURL rejected.
NotRequested == [DetailResponse(TRUE, 0, FALSE, <<>>, "") EXCEPT !.status = -1]
Visited(rec, resp) == [rec EXCEPT !.pages = Append(@, resp)]

\* Mutant: the return for a search page without links leaves the lock held.
LockedAfterNoLinks(path) == path = "nolinks"

\* The deferred c.lock.Unlock(): the lock after Check returned on `path`.
LockedAfterReturn(path) == FALSE

\* Mutant: Check returns the error and never a list.
ReturnNoResults(i, path, results, err) ==
    /\ inv' = [inv EXCEPT ![i].pc = "returned",
                          ![i].client = "",
                          ![i].path = path,
                          ![i].results = <<>>,
                          ![i].pages = <<>>,
                          ![i].out = [results |-> <<>>, err |-> err]]
    /\ locked' = LockedAfterReturn(path)

\* Check returns (results, err) on the return path `path`.
Return(i, path, results, err) ==
    /\ inv' = [inv EXCEPT ![i].pc = "returned",
                          ![i].client = "",
                          ![i].path = path,
                          ![i].results = <<>>,
                          ![i].pages = <<>>,
                          ![i].out = [results |-> results, err |-> err]]
    /\ locked' = LockedAfterReturn(path)

\* A caller reaches c.lock.Lock().
CallCheck(i, imdbID, caller) ==
    inv' = [inv EXCEPT ![i] = [NoInv EXCEPT !.pc = "lock", !.imdbID = imdbID,
                                             !.caller = caller]]

\* A collaborator calls Check through the GetMagnetSearchers map.
DirectCheck(imdbID) ==
    /\ Cardinality(Started) < MaxChecks
    /\ CallCheck(Cardinality(Started) + 1, imdbID, "direct")
    /\ UNCHANGED <<now, cache, locked, mainVars>>
    /\ UNCHANGED configVars

Lock(i) ==
    /\ inv[i].pc = "lock"
    /\ ~locked
    /\ locked' = TRUE
    /\ inv' = [inv EXCEPT ![i].pc = "cache"]
    /\ UNCHANGED <<now, cache, mainVars>>
    /\ UNCHANGED configVars

\* Mutant: bytes that do not decode end the Check with the decoder's error.
CacheLookupFatal(i, t) ==
    /\ inv[i].pc = "cache"
    /\ t \in Clock
    /\ now' = t
    /\ LET bytes == cache[CacheKey(inv[i].imdbID)]
       IN  IF CacheHit(bytes, t)
           THEN Return(i, "hit", FromCacheEntry(bytes).Results, NilErr)
           ELSE IF bytes # NoBytes /\ ~FromCacheEntry(bytes).err.nil
           THEN Return(i, "decode", <<>>, FromCacheEntry(bytes).err)
           ELSE inv' = [inv EXCEPT ![i].pc = "search"] /\ UNCHANGED locked
    /\ UNCHANGED <<cache, mainVars>>
    /\ UNCHANGED configVars

\* Mutant: an expired entry is returned together with an error.
CacheLookupExpiredError(i, t) ==
    /\ inv[i].pc = "cache"
    /\ t \in Clock
    /\ now' = t
    /\ LET bytes == cache[CacheKey(inv[i].imdbID)]
       IN  IF CacheHit(bytes, t)
           THEN Return(i, "hit", FromCacheEntry(bytes).Results, NilErr)
           ELSE IF bytes # NoBytes /\ FromCacheEntry(bytes).err.nil
           THEN Return(i, "expired", FromCacheEntry(bytes).Results, Errorf(<<"expired">>))
           ELSE inv' = [inv EXCEPT ![i].pc = "search"] /\ UNCHANGED locked
    /\ UNCHANGED <<cache, mainVars>>
    /\ UNCHANGED configVars

\* The cache lookup, its time.Since reading the clock at t.
CacheLookup(i, t) ==
    /\ inv[i].pc = "cache"
    /\ t \in Clock
    /\ now' = t
    /\ LET bytes == cache[CacheKey(inv[i].imdbID)]
       IN  IF CacheHit(bytes, t)
           THEN Return(i, "hit", FromCacheEntry(bytes).Results, NilErr)
           ELSE inv' = [inv EXCEPT ![i].pc = "search"] /\ UNCHANGED locked
    /\ UNCHANGED <<cache, mainVars>>
    /\ UNCHANGED configVars

SearchGet(i) ==
    /\ inv[i].pc = "search"
    /\ inv' = [inv EXCEPT ![i].pc = "searchWait", ![i].client = SearchClient]
    /\ UNCHANGED <<now, cache, locked, mainVars>>
    /\ UNCHANGED configVars

\* Mutant: a bad status of the search page is cached as an empty list.
SearchAnswerCachesStatus(i, resp) ==
    /\ inv[i].pc = "searchWait"
    /\ IF resp.failed THEN Return(i, "get", <<>>, Errorf(<<"Couldn't GET">>))
       ELSE IF resp.status # StatusOK
       THEN Return(i, "status", <<>>, Errorf(<<"Bad GET response", resp.status>>))
       ELSE IF ~resp.parsable
       THEN Return(i, "html", <<>>, Errorf(<<"Couldn't load the HTML in goquery">>))
       ELSE IF PageURLs(resp.rows) = <<>> THEN Return(i, "nolinks", <<>>, NilErr)
       ELSE /\ inv' = [inv EXCEPT ![i].pc = "detail", ![i].client = "",
                                  ![i].torrentPageURLs = PageURLs(resp.rows)]
            /\ UNCHANGED locked
    /\ cache' = IF ~resp.failed /\ resp.status # StatusOK
                THEN [cache EXCEPT ![CacheKey(inv[i].imdbID)] = NewCacheEntry(now, <<>>)]
                ELSE cache
    /\ UNCHANGED <<now, mainVars>>
    /\ UNCHANGED configVars

\* The upstream answers the search-page GET.
SearchAnswer(i, resp) ==
    /\ inv[i].pc = "searchWait"
    /\ IF resp.failed THEN Return(i, "get", <<>>, Errorf(<<"Couldn't GET">>))
       ELSE IF resp.status # StatusOK
       THEN Return(i, "status", <<>>, Errorf(<<"Bad GET response", resp.status>>))
       ELSE IF ~resp.parsable
       THEN Return(i, "html", <<>>, Errorf(<<"Couldn't load the HTML in goquery">>))
       ELSE IF PageURLs(resp.rows) = <<>> THEN Return(i, "nolinks", <<>>, NilErr)
       ELSE /\ inv' = [inv EXCEPT ![i].pc = "detail", ![i].client = "",
                                  ![i].torrentPageURLs = PageURLs(resp.rows)]
            /\ UNCHANGED locked
    /\ UNCHANGED <<now, cache, mainVars>>
    /\ UNCHANGED configVars

\* The invocation after the page at the head of torrentPageURLs was handled.
NextPage(rec, results) ==
    [rec EXCEPT !.pc = IF Len(rec.torrentPageURLs) > 1 THEN "detail" ELSE "store",
                !.client = "",
                !.torrentPageURLs = Tail(rec.torrentPageURLs),
                !.results = results]

\* The head of a loop iteration: time.Sleep(150 * time.Millisecond), replaceURL
\* and the GET of the detail page.
DetailGet(i) ==
    /\ inv[i].pc = "detail"
    /\ IF ReplaceURLFails(Head(inv[i].torrentPageURLs))
       THEN inv' = [inv EXCEPT ![i] = Visited(NextPage(inv[i], inv[i].results), NotRequested)]
       ELSE inv' = [inv EXCEPT ![i].pc = "detailWait", ![i].client = DetailClient]
    /\ UNCHANGED <<now, cache, locked, mainVars>>
    /\ UNCHANGED configVars

\* Mutant: the result of a page is put in front of the list.
DetailAnswerInFront(i, resp) ==
    /\ inv[i].pc = "detailWait"
    /\ LET page == ScrapePage(resp)
       IN  inv' = [inv EXCEPT ![i] = Visited(NextPage(inv[i],
                       IF page.keep THEN <<page.result>> \o inv[i].results
                       ELSE inv[i].results), resp)]
    /\ UNCHANGED <<now, cache, locked, mainVars>>
    /\ UNCHANGED configVars

\* The upstream answers the detail-page GET.
DetailAnswer(i, resp) ==
    /\ inv[i].pc = "detailWait"
    /\ LET page == ScrapePage(resp)
       IN  inv' = [inv EXCEPT ![i] = Visited(NextPage(inv[i],
                       IF page.keep THEN Append(inv[i].results, page.result)
                       ELSE inv[i].results), resp)]
    /\ UNCHANGED <<now, cache, locked, mainVars>>
    /\ UNCHANGED configVars

\* The Timeout of the request's http.Client expires: the GET returns an error.
RequestTimeout(i) ==
    /\ inv[i].pc \in {"searchWait", "detailWait"}
    /\ HasTimeout(inv[i].client)
    /\ IF inv[i].pc = "searchWait"
       THEN Return(i, "get", <<>>, Errorf(<<"Couldn't GET">>))
       ELSE /\ inv' = [inv EXCEPT ![i] = Visited(NextPage(inv[i], inv[i].results),
                                                  DetailResponse(TRUE, 0, FALSE, <<>>, ""))]
            /\ UNCHANGED locked
    /\ UNCHANGED <<now, cache, mainVars>>
    /\ UNCHANGED configVars

\* The return path of the cache write: "dropped" after the warning that the
\* entry is too big, "lost" when Set did not keep an entry Check took for cached.
StorePath(key, torrentsGob) ==
    IF TooBig(torrentsGob) THEN "dropped"
    ELSE IF Fits(key, torrentsGob) THEN "stored" ELSE "lost"

\* NewCacheEntry, its time.Now() reading the clock at t in a zone of some
\* offset, c.cache.Set unless the encoding failed, and the final return.
Store(i, t) ==
    /\ inv[i].pc = "store"
    /\ t \in Clock
    /\ now' = t
    /\ \E offset \in ZoneOffsets :
       \E evicted \in SUBSET {k \in CacheKeys : k # CacheKey(inv[i].imdbID) /\ cache[k] # NoBytes} :
           LET key == CacheKey(inv[i].imdbID)
               torrentsGob == NewCacheEntry(t, inv[i].results)
           IN  IF EncodeFails(offset)
               THEN /\ evicted = {}
                    /\ UNCHANGED cache
                    /\ Return(i, "failed", inv[i].results, NilErr)
               ELSE /\ Fits(key, torrentsGob) \/ evicted = {}
                    /\ cache' = Set(cache, key, torrentsGob, evicted)
                    /\ Return(i, StorePath(key, torrentsGob), inv[i].results, NilErr)
    /\ UNCHANGED mainVars
    /\ UNCHANGED configVars

\* ------------------------------------------------------------ Client.FindMagnets
\* What a fast source's Check (checkAttempts for TPB) may return.
FastResult(title, hash) == Result(title, <<"1080p">>, <<hash>>, <<"magnet:?xt=urn:", "btih:", hash>>)

FastList(s) ==
    CASE s = "YTS" -> <<FastResult("yts 1", "AB"), FastResult("yts 2", "EF")>>
      [] s = "TPB" -> <<FastResult("tpb 1", "CD"), FastResult("tpb 2", "CD")>>
      [] s = "1337x" -> <<FastResult("1337x 1", "AB")>>

FastOutcomes(s) ==
    {[results |-> <<>>, err |-> Errorf(<<s, "failed">>)],
     [results |-> <<>>, err |-> NilErr],
     [results |-> FastList(s), err |-> NilErr]}

\* A message on a channel: the value sent, with the goroutine that sent it.
Msg(src, out) == [src |-> src, results |-> out.results, err |-> out.err]

\* The call begins: the channels are made and the four goroutines started.
StartCall(x) ==
    /\ mpc \in {"idle", "done"}
    /\ Cardinality(Started) < MaxChecks
    /\ calls' = calls + 1
    /\ mpc' = "collect"
    /\ callID' = x
    /\ ibitInv' = Cardinality(Started) + 1
    /\ CallCheck(Cardinality(Started) + 1, x, "find")
    /\ pending' = FastSources
    /\ resChan' = <<>>
    /\ errChan' = <<>>
    /\ received' = 0
    /\ combinedResults' = <<>>
    /\ errs' = <<>>
    /\ dupRemovalRequired' = FALSE
    /\ returnErrors' = FALSE
    /\ ret' = NoReturn
    /\ offered' = <<>>
    /\ closeChansOk' = FALSE
    /\ resultLists' = <<>>
    /\ UNCHANGED <<now, cache, locked>>
    /\ UNCHANGED configVars

\* Mutant: the value sent overtakes the values waiting in the buffer.
ChanSendFront(ch, m) == <<m>> \o ch

\* A send on a buffered channel with room: the value joins the queue.
ChanSend(ch, m) == Append(ch, m)

\* A fast goroutine: its source's Check returns `out`, which it sends on
\* errChan or resChan (buffered for torrentSiteCount values: it never blocks).
FastSend(s, out) ==
    /\ s \in pending
    /\ pending' = pending \ {s}
    /\ IF out.err.nil
       THEN resChan' = ChanSend(resChan, Msg(s, out)) /\ UNCHANGED errChan
       ELSE errChan' = ChanSend(errChan, Msg(s, out)) /\ UNCHANGED resChan
    /\ offered' = Append(offered, s)
    /\ UNCHANGED <<now, ibitVars, callVars, collectVars>>
    /\ UNCHANGED configVars

\* The ibit goroutine, after Check returned, reaches its send on ibitErrChan or
\* ibitResChan (unbuffered: it stays there until the call receives).
IbitSend(i) ==
    /\ inv[i].pc = "returned"
    /\ inv[i].caller = "find"
    /\ inv' = [inv EXCEPT ![i].pc = "send"]
    /\ offered' = IF i = ibitInv /\ mpc \in {"collect", "select"}
                  THEN Append(offered, "ibit") ELSE offered
    /\ UNCHANGED <<now, cache, locked, callVars, chanVars, collectVars>>
    /\ UNCHANGED configVars

\* Mutant: the flag is raised only by a list of two results or more.
DupRemovalRequiredLong(dup, combined, results) ==
    dup \/ (Len(combined) > 0 /\ Len(results) > 1)

\* !dupRemovalRequired && len(combinedResults) > 0 && len(results) > 0
DupRemovalRequired(dup, combined, results) ==
    dup \/ (Len(combined) > 0 /\ Len(results) > 0)

\* The value a receive takes from a buffered channel.
ChanRecv(ch) == Head(ch)

\* len(errs) == torrentSiteCount, after the collecting loop.
AllFastFailed(es) == Len(es) = torrentSiteCount

\* Mutant: the collecting loop ends one outcome early.
CollectedEarly(n, es) ==
    /\ received' = n
    /\ IF n = torrentSiteCount - 1
       THEN mpc' = "select" /\ returnErrors' = AllFastFailed(es)
       ELSE UNCHANGED <<mpc, returnErrors>>

\* One iteration of the collecting loop; the loop's exit closes the channels
\* and sets returnErrors.
Collected(n, es) ==
    /\ received' = n
    /\ IF n = torrentSiteCount
       THEN mpc' = "select" /\ returnErrors' = AllFastFailed(es)
       ELSE UNCHANGED <<mpc, returnErrors>>

RecvErr ==
    /\ mpc = "collect"
    /\ errChan # <<>>
    /\ errs' = Append(errs, ChanRecv(errChan).err)
    /\ errChan' = Tail(errChan)
    /\ Collected(received + 1, Append(errs, ChanRecv(errChan).err))
    /\ UNCHANGED <<now, ibitVars, calls, callID, ibitInv, ret, pending, resChan,
                   combinedResults, dupRemovalRequired, closeChansOk, resultLists, offered>>
    /\ UNCHANGED configVars

RecvRes ==
    /\ mpc = "collect"
    /\ resChan # <<>>
    /\ dupRemovalRequired' =
           DupRemovalRequired(dupRemovalRequired, combinedResults, ChanRecv(resChan).results)
    /\ combinedResults' = combinedResults \o ChanRecv(resChan).results
    /\ resChan' = Tail(resChan)
    /\ resultLists' = Append(resultLists, ChanRecv(resChan))
    /\ Collected(received + 1, errs)
    /\ UNCHANGED <<now, ibitVars, calls, callID, ibitInv, ret, pending, errChan,
                   errs, closeChansOk, offered>>
    /\ UNCHANGED configVars

\* The aggregate message: one segment per i in 1..torrentSiteCount.
ErrsMsg(es) == [k \in 1..torrentSiteCount |-> <<k, es[k].msg>>]

\* The duplicate removal: a result is kept when its InfoHash was not seen.
RECURSIVE RemoveDuplicates(_, _)
RemoveDuplicates(list, infoHashes) ==
    IF list = <<>> THEN <<>>
    ELSE IF Head(list).InfoHash \in infoHashes THEN RemoveDuplicates(Tail(list), infoHashes)
    ELSE <<Head(list)>> \o RemoveDuplicates(Tail(list), infoHashes \cup {Head(list).InfoHash})

\* Mutant: the duplicate removal runs whatever the flag says.
NoDupResultsAlways(combined, dup) == RemoveDuplicates(combined, {})

\* noDupResults, from combinedResults and dupRemovalRequired.
NoDupResults(combined, dup) == IF dup THEN RemoveDuplicates(combined, {}) ELSE combined

\* Mutant: the case that receives ibit's results leaves returnErrors as it was.
ReturnErrorsKept(re) == re

\* returnErrors after the ibit goroutine's result list was received.
ReturnErrorsAfterIbitResults(re) == FALSE

\* What FindMagnets returns, from its locals after the select.
FindMagnetsReturn(combined, es, re, dup) ==
    IF re THEN [returned |-> TRUE, results |-> <<>>, err |-> Errorf(ErrsMsg(es))]
    ELSE [returned |-> TRUE, results |-> NoDupResults(combined, dup), err |-> NilErr]

\* The select's first two cases: the ibit goroutine's value is received.
IbitRecv ==
    /\ mpc = "select"
    /\ inv[ibitInv].pc = "send"
    /\ inv' = [inv EXCEPT ![ibitInv].pc = "done"]
    /\ LET out == inv[ibitInv].out
       IN  /\ closeChansOk' = TRUE
           /\ IF out.err.nil
              THEN /\ resultLists' = Append(resultLists, Msg("ibit", out))
                   /\ dupRemovalRequired' =
                          DupRemovalRequired(dupRemovalRequired, combinedResults, out.results)
                   /\ combinedResults' = combinedResults \o out.results
                   /\ returnErrors' = ReturnErrorsAfterIbitResults(returnErrors)
                   /\ UNCHANGED errs
              ELSE /\ errs' = Append(errs, out.err)
                   /\ UNCHANGED <<combinedResults, dupRemovalRequired, returnErrors,
                                  resultLists>>
    /\ ret' = FindMagnetsReturn(combinedResults', errs', returnErrors', dupRemovalRequired')
    /\ mpc' = "done"
    /\ UNCHANGED <<now, cache, locked, calls, callID, ibitInv, chanVars, received, offered>>
    /\ UNCHANGED configVars

\* Mutant: the select has no timer case.
TimerNever(ibitpc) == FALSE

\* time.After(1 * time.Second) fires while no value is offered on the ibit
\* channels (a value offered before that is received by the select).
TimerFires(ibitpc) == ibitpc # "send"

\* The select's third case.
GraceTimeout ==
    /\ mpc = "select"
    /\ TimerFires(inv[ibitInv].pc)
    /\ ret' = FindMagnetsReturn(combinedResults, errs, returnErrors, dupRemovalRequired)
    /\ mpc' = "done"
    /\ UNCHANGED <<now, ibitVars, calls, callID, ibitInv, chanVars, collectVars, offered>>
    /\ UNCHANGED configVars

\* close(resChan) and close(errChan) were executed: the call is past its
\* collecting loop.
FastChansClosed == mpc \in {"select", "done"}

\* close(ibitErrChan) and close(ibitResChan) were executed: the call is past
\* its select with closeChansOk set.
IbitChansClosed == mpc = "done" /\ closeChansOk

MainStep == RecvErr \/ RecvRes \/ IbitRecv \/ GraceTimeout

CheckStep(i) ==
    \/ Lock(i)
    \/ \E t \in 0..MaxTime : CacheLookup(i, t)
    \/ SearchGet(i)
    \/ DetailGet(i)
    \/ RequestTimeout(i)
    \/ \E t \in 0..MaxTime : Store(i, t)

Upstream(i) ==
    \/ \E resp \in SearchResponses : SearchAnswer(i, resp)
    \/ \E resp \in DetailResponses : DetailAnswer(i, resp)

\* The upstream answers a detail-page GET with a page of a long magnet.
UpstreamLong(i) == \E resp \in LongResponses : DetailAnswer(i, resp)

FastStep == \E s \in FastSources : \E out \in FastOutcomes(s) : FastSend(s, out)

\* One FindMagnets call with its goroutines.
Next ==
    \/ \E x \in IDs : calls = 0 /\ StartCall(x)
    \/ FastStep
    \/ MainStep
    \/ \E i \in Invs : IbitSend(i)
    \/ \E i \in Invs : CheckStep(i)
    \/ \E i \in Invs : Upstream(i)

Spec == Init /\ [][Next]_vars

\* Concurrent calls of Check through the GetMagnetSearchers map.
NextCheck ==
    \/ \E x \in IDs : DirectCheck(x)
    \/ \E i \in Invs : CheckStep(i)
    \/ \E i \in Invs : Upstream(i)
    \/ \E i \in Invs : UpstreamLong(i)

SpecCheck == InitPersisted /\ [][NextCheck]_vars

\* A Check that was started has returned.
Finished(i) == inv[i].pc \in {"returned", "send", "done"}

\* What the fast sources return in the behaviours of SpecLater: nothing found,
\* or, for YTS, an error.
QuietOutcomes(s) ==
    {out \in FastOutcomes(s) : out.results = <<>> /\ (out.err.nil \/ s = "YTS")}

\* FindMagnets calls one after another, a later one made after the Check of
\* the one before has returned.
NextLater ==
    \/ \E x \in IDs : (calls > 0 => Finished(ibitInv)) /\ StartCall(x)
    \/ \E s \in FastSources : \E out \in QuietOutcomes(s) : FastSend(s, out)
    \/ MainStep
    \/ \E i \in Invs : IbitSend(i)
    \/ \E i \in Invs : CheckStep(i)
    \/ \E i \in Invs : Upstream(i)

SpecLater == Init /\ [][NextLater]_vars

\* The runtime schedules the calling goroutine and its timer fires; nothing is
\* assumed of the sources.
FairSpec == Spec /\ WF_vars(MainStep)

\* Every goroutine inside Check is scheduled, the mutex is handed to each
\* waiter in turn, and an http.Client's Timeout expires; the upstream may
\* leave a request unanswered.
FairCheck ==
    /\ SpecCheck
    /\ \A i \in Invs : SF_vars(Lock(i))
    /\ \A i \in Invs : WF_vars(CheckStep(i))

\* The fast goroutines of a call in which they find nothing, or, for YTS, fail.
QuietStep == \E s \in FastSources : \E out \in QuietOutcomes(s) : FastSend(s, out)

\* One FindMagnets call with its goroutines, the fast sources quiet.
NextTasks ==
    \/ \E x \in IDs : calls = 0 /\ StartCall(x)
    \/ QuietStep
    \/ MainStep
    \/ \E i \in Invs : IbitSend(i)
    \/ \E i \in Invs : CheckStep(i)
    \/ \E i \in Invs : Upstream(i)

SpecTasks == Init /\ [][NextTasks]_vars

\* One FindMagnets call in which every goroutine runs and the upstream answers
\* every request.
FairTasks ==
    /\ SpecTasks
    /\ WF_vars(MainStep)
    /\ WF_vars(QuietStep)
    /\ \A i \in Invs : WF_vars(CheckStep(i)) /\ WF_vars(IbitSend(i)) /\ WF_vars(Upstream(i))

\* A FindMagnets call for an identifier whose entry is in the cache since the
\* start, and Checks for the other identifier through the GetMagnetSearchers
\* map at the same time.
CachedEntry ==
    NewCacheEntry(0, <<Result("Old Movie", <<"720p">>, <<"GH">>, Magnet2160p10bit)>>)

InitBusy ==
    Start([k \in CacheKeys |-> IF k = CacheKey("tt1") THEN CachedEntry ELSE NoBytes])

NextBusy ==
    \/ calls = 0 /\ StartCall("tt1")
    \/ DirectCheck("tt2")
    \/ \E s \in FastSources : \E out \in QuietOutcomes(s) : FastSend(s, out)
    \/ MainStep
    \/ \E i \in Invs : IbitSend(i)
    \/ \E i \in Invs : CheckStep(i)
    \/ \E i \in Invs : Upstream(i)

SpecBusy == InitBusy /\ [][NextBusy]_vars

\* One Check whose search page lists up to MaxPages links, with every kind of
\* detail page.
UpstreamScrape(i) ==
    \/ \E resp \in ScrapeSearchResponses : SearchAnswer(i, resp)
    \/ \E resp \in ScrapeResponses : DetailAnswer(i, resp)

NextScrape ==
    \/ \E x \in IDs : Started = {} /\ DirectCheck(x)
    \/ \E i \in Invs : CheckStep(i)
    \/ \E i \in Invs : UpstreamScrape(i)

SpecScrape == Init /\ [][NextScrape]_vars

\* ------------------------------------------------------------ start of the process
RECURSIVE SubsetsUpTo(_, _)
SubsetsUpTo(S, n) ==
    IF n = 0 THEN {{}}
    ELSE LET P == SubsetsUpTo(S, n - 1) IN P \cup {D \cup {x} : D \in P, x \in S}

\* The texts a flag is passed with.
ArgValues(f) ==
    IF f \in IntFlags THEN {<<"7", "0">>}
    ELSE IF f = "envPrefix" THEN {<<"DEFLIX">>, <<"DEFLIX", "_">>}
    ELSE {<<"cli">>}

\* The command lines: MaxArgs flags at most.
CommandLines ==
    UNION {{args \in [D -> UNION {ArgValues(f) : f \in Flags}] :
                \A f \in D : args[f] \in ArgValues(f)} : D \in SubsetsUpTo(Flags, MaxArgs)}

\* The variables an environment may hold: a name of a setting, with the prefix or bare.
EnvNames ==
    {prefix \o <<name>> :
        prefix \in {<<>>, <<"DEFLIX", "_">>},
        name \in {EnvVar(EnvSettings[k]) : k \in 1..Len(EnvSettings)} \cup {"BASE_URL_IBIT"}}

EnvValues == {<<"9", "0">>, <<>>}

\* The environments: MaxEnv variables at most.
Environs == UNION {[D -> EnvValues] : D \in SubsetsUpTo(EnvNames, MaxEnv)}

\* The process was started: the flags are defined, main has not called parseConfig.
InitConfig ==
    /\ NotCalled([k \in CacheKeys |-> NoBytes])
    /\ commandLine \in CommandLines
    /\ environ \in Environs
    /\ flagValues = [f \in Flags |-> Default(f)]
    /\ cpc = "start"

ParseConfig ==
    /\ cpc = "start"
    /\ LET r == parseConfig(commandLine, environ)
       IN  /\ flagValues' = r.vals
           /\ cpc' = IF r.fatal THEN "fatal" ELSE "parsed"
    /\ UNCHANGED <<commandLine, environ, now, ibitVars, mainVars>>

NextConfig == ParseConfig

SpecConfig == InitConfig /\ [][NextConfig]_vars

\* ------------------------------------------------------------ the claims
\* The lists of `lists` (messages), one after the other.
RECURSIVE Concat(_)
Concat(lists) == IF lists = <<>> THEN <<>> ELSE Head(lists).results \o Concat(Tail(lists))

\* The elements of `list` at the positions in `at`, in order.
RECURSIVE Pick(_, _, _)
Pick(list, at, k) ==
    IF k > Len(list) THEN <<>>
    ELSE (IF k \in at THEN <<list[k]>> ELSE <<>>) \o Pick(list, at, k + 1)

\* `list` without every result whose InfoHash occurred at an earlier position.
KeepFirst(list) ==
    Pick(list, {k \in 1..Len(list) : \A j \in 1..(k - 1) : list[j].InfoHash # list[k].InfoHash}, 1)

NonEmpty(lists) == {k \in 1..Len(lists) : lists[k].results # <<>>}

\* The number of sources the call awaited: the fast ones, and ibit when its
\* value was received.
Awaited == torrentSiteCount + (IF closeChansOk THEN 1 ELSE 0)

\* C1: FindMagnets returns a nil list with a non-nil error exactly when every
\* source it awaited returned an error; when an awaited source returned a list,
\* even an empty one, it returns no error.
C1_ErrorIffAllAwaitedFailed ==
    mpc = "done" =>
        /\ (ret.results = <<>> /\ ~ret.err.nil) <=> (Len(errs) = Awaited)
        /\ ~ret.err.nil => ret.results = <<>>
        /\ resultLists # <<>> => ret.err.nil

\* C1 happens: the three fast sources and ibit, in time, all failed.
C1_Witness ==
    /\ mpc = "done" /\ closeChansOk /\ Len(errs) = torrentSiteCount + 1
    /\ ~ret.err.nil

\* C2: when all four sources return errors, ibit inside the grace period, the
\* error's message has one segment per source, and each source's error is in it.
C2_EverySourceInMessage ==
    (mpc = "done" /\ closeChansOk /\ Len(errs) = torrentSiteCount + 1) =>
        /\ ret.results = <<>> /\ ~ret.err.nil
        /\ Len(ret.err.msg) = Len(errs)
        /\ \A k \in 1..Len(errs) : \E j \in 1..Len(ret.err.msg) : ret.err.msg[j][2] = errs[k].msg

\* C3: when two or more of the received lists were non-empty, the returned list
\* is their concatenation in the order received, without the results whose
\* InfoHash occurred earlier; no InfoHash is in it twice.
C3_MergedListDeduplicated ==
    (mpc = "done" /\ Cardinality(NonEmpty(resultLists)) >= 2) =>
        /\ ret.err.nil
        /\ ret.results = KeepFirst(Concat(resultLists))
        /\ \A j, k \in 1..Len(ret.results) :
               ret.results[j].InfoHash = ret.results[k].InfoHash => j = k

\* C3 happens: two non-empty lists were merged and a duplicate was dropped.
C3_Witness ==
    /\ mpc = "done" /\ Cardinality(NonEmpty(resultLists)) >= 2
    /\ Len(ret.results) < Len(combinedResults)

\* C4: when one awaited source returned a non-empty list and every other
\* awaited source an empty list without error, FindMagnets returns no error and
\* that list as it was.
C4_SingleListUnchanged ==
    (mpc = "done" /\ errs = <<>> /\ Len(resultLists) = Awaited
       /\ Cardinality(NonEmpty(resultLists)) = 1) =>
        /\ ret.err.nil
        /\ \A k \in NonEmpty(resultLists) : ret.results = resultLists[k].results

\* C4 happens: the one list holds the same InfoHash twice and is returned whole.
C4_Witness ==
    /\ mpc = "done" /\ errs = <<>> /\ Len(resultLists) = Awaited
    /\ NonEmpty(resultLists) # {}
    /\ \A k \in NonEmpty(resultLists) :
           resultLists[k].src = "TPB" /\ ret.results = FastList("TPB")

\* The received lists merged from the fast sources alone.
FromFastOnly ==
    /\ \A k \in 1..Len(resultLists) : resultLists[k].src \in FastSources
    /\ ret.results = IF Cardinality(NonEmpty(resultLists)) >= 2
                     THEN KeepFirst(Concat(resultLists)) ELSE Concat(resultLists)
    /\ ret.err.nil <=> resultLists # <<>>
    /\ \A j \in 1..Len(ret.err.msg) : ret.err.msg[j][2][1] \in FastSources

\* C5: once the three fast outcomes were collected the call returns, whatever
\* the ibit goroutine does; and a call whose timer fired first returns what the
\* fast sources alone gave, list and error.
C5_ReturnsWithoutIbit ==
    /\ [](mpc = "done" /\ ~closeChansOk => FromFastOnly)
    /\ (mpc = "select" ~> mpc = "done")

\* C5 happens: the timer fired first, and ibit's Check later returned results.
C5_Witness ==
    /\ mpc = "done" /\ ~closeChansOk
    /\ Finished(ibitInv) /\ inv[ibitInv].out.results # <<>>

\* The sources that sent a result list, in the order given by `order`.
RECURSIVE ListsInOrder(_)
ListsInOrder(order) ==
    IF order = <<>> THEN <<>>
    ELSE LET at == {k \in 1..Len(resultLists) : resultLists[k].src = Head(order)}
         IN  (IF at = {} THEN <<>> ELSE resultLists[CHOOSE k \in at : TRUE].results)
               \o ListsInOrder(Tail(order))

IsFast(s) == s \in FastSources

\* C7 as stated: the merged list is the awaited lists in the order in which the
\* sources, ibit among them, reached their send.
C7_CompletionOrder ==
    mpc = "done" => combinedResults = ListsInOrder(offered)

\* C7 amended: the merged list is the fast sources' lists in the order of their
\* sends, followed by ibit's list when it was received, whenever ibit's Check
\* returned.
C7_FastInSendOrderThenIbit ==
    mpc = "done" =>
        combinedResults = ListsInOrder(SelectSeq(offered, IsFast) \o <<"ibit">>)

\* C7 happens: ibit reached its send first, and its list was merged last.
C7_Witness ==
    /\ mpc = "done" /\ closeChansOk
    /\ offered # <<>> /\ offered[1] = "ibit"
    /\ Cardinality(NonEmpty(resultLists)) >= 3
    /\ resultLists[Len(resultLists)].src = "ibit"
    /\ resultLists[Len(resultLists)].results # <<>>

\* The Check of an earlier FindMagnets call whose outcome was never received
\* (the grace period ended first), and the Check of the current call for the
\* same identifier, no Check in between having written an entry for it.
Abandoned(i, j) ==
    /\ i < j /\ ibitInv = j
    /\ inv[i].caller = "find" /\ inv[i].pc \in {"returned", "send"}
    /\ inv[j].imdbID = inv[i].imdbID
    /\ \A k \in Invs :
           (i < k /\ k < j /\ inv[k].imdbID = inv[i].imdbID) => inv[k].path # "stored"

\* The step in which the Check i returns.
Returns(i) == inv[i].pc # "returned" /\ inv'[i].pc = "returned"

\* C6: when the Check of a FindMagnets call returns without error after the
\* call stopped waiting for it, and has not reported that its entry was not
\* written, the cache holds under the identifier's key an entry with the list it
\* returned; and when the Check of a later call for the identifier reads the
\* cache and finds a decodable entry younger than cacheAge, it is a hit with the
\* list of that entry.
C6_LaterCallHits ==
    [][/\ \A i \in Invs :
              (/\ Returns(i) /\ ibitInv = i /\ mpc = "done"
               /\ inv'[i].out.err.nil /\ inv'[i].path \notin {"failed", "dropped"}) =>
                  /\ FromCacheEntry(cache'[CacheKey(inv[i].imdbID)]).err.nil
                  /\ FromCacheEntry(cache'[CacheKey(inv[i].imdbID)]).Results
                         = inv'[i].out.results
       /\ \A i, j \in Invs :
              LET entry == FromCacheEntry(cache[CacheKey(inv[i].imdbID)])
              IN  (/\ Abandoned(i, j) /\ inv[j].pc = "cache" /\ inv'[j].pc # "cache"
                   /\ entry.err.nil /\ now' - entry.Created < cacheAge) =>
                      /\ inv'[j].path = "hit"
                      /\ inv'[j].out = [results |-> entry.Results, err |-> NilErr]]_vars

\* Between the acquisition of the mutex and the return of Check.
InCheck(i) == inv[i].pc \in {"cache", "search", "searchWait", "detail", "detailWait", "store"}

\* C8: at most one invocation of Check is between the acquisition of the mutex
\* and its return, whoever called and for whatever identifier; and the mutex is
\* held only then: every return released it.
C8_OneCheckAtATime ==
    /\ Cardinality({i \in Invs : InCheck(i)}) <= 1
    /\ locked <=> \E i \in Invs : InCheck(i)

\* C8 happens: a Check waits for a detail page while a Check for another
\* identifier waits for the mutex.
C8_Witness ==
    \E i, j \in Invs :
        /\ inv[i].pc = "detailWait" /\ inv[j].pc = "lock"
        /\ inv[i].imdbID # inv[j].imdbID

\* C9: every Check that acquired the mutex returns, the upstream answering or
\* not, so that no Check waits for the mutex for ever.
C9_EveryCheckReturns ==
    \A i \in Invs : (inv[i].pc \in {"lock", "cache"}) ~> Finished(i)

\* C10: the cache lookup of Check returns a decodable entry younger than
\* cacheAge as its result, without a request, and goes on to the search-page
\* request for a decodable entry of the age cacheAge or more.
C10_FreshHitStaleFetch ==
    [][\A i \in Invs :
          LET bytes == cache[CacheKey(inv[i].imdbID)]
              entry == FromCacheEntry(bytes)
          IN  (inv[i].pc = "cache" /\ inv'[i].pc # "cache" /\ bytes # NoBytes /\ entry.err.nil) =>
                  IF now' - entry.Created < cacheAge
                  THEN /\ inv'[i].pc = "returned"
                       /\ inv'[i].out = [results |-> entry.Results, err |-> NilErr]
                       /\ cache' = cache
                  ELSE inv'[i].pc = "search"]_vars

\* C10 happens: one Check returned the entry as a hit, and a later Check for the
\* same identifier found it at the age of cacheAge and is about to fetch.
C10_Witness ==
    \E i, j \in Invs :
        LET bytes == cache[CacheKey(inv[j].imdbID)]
        IN  /\ inv[i].path = "hit" /\ inv[i].out.results # <<>>
            /\ inv[j].pc = "search" /\ inv[j].imdbID = inv[i].imdbID
            /\ bytes # NoBytes /\ FromCacheEntry(bytes).err.nil
            /\ now - FromCacheEntry(bytes).Created >= cacheAge

\* C11: a Check that missed the cache and returns no error has, at its return,
\* written under the identifier's key an entry created then, with the list it
\* returns, also when the search page had no links.
C11_MissWritesFreshEntry ==
    [][\A i \in Invs :
          (Returns(i) /\ inv'[i].path # "hit" /\ inv'[i].out.err.nil) =>
              cache'[CacheKey(inv[i].imdbID)] = NewCacheEntry(now', inv'[i].out.results)]_vars

\* C12: the step in which a Check returns an error leaves the cache as it is,
\* and the cache changes only in the step in which a Check returns no error
\* after its detail pages, which writes under its own key only and may evict
\* what other keys hold: from its lock to its return with an error the content
\* stays what it was.
C12_ErrorLeavesCache ==
    [][/\ \A i \in Invs : (Returns(i) /\ ~inv'[i].out.err.nil) => cache' = cache
       /\ cache' # cache =>
              \E i \in Invs :
                  /\ inv[i].pc = "store" /\ Returns(i) /\ inv'[i].out.err.nil
                  /\ \A k \in CacheKeys :
                         k # CacheKey(inv[i].imdbID) => cache'[k] \in {cache[k], NoBytes}]_vars

\* C12 happens: a Check returned an error, and the undecodable bytes or the
\* expired entry under its key are there as before.
C12_Witness ==
    \E i, j \in Invs :
        /\ inv[i].pc = "returned" /\ ~inv[i].out.err.nil
        /\ cache[CacheKey(inv[i].imdbID)] = JunkBytes
        /\ inv[j].pc = "returned" /\ ~inv[j].out.err.nil
        /\ cache[CacheKey(inv[j].imdbID)] \notin {NoBytes, JunkBytes}

\* The errors of the search-page request.
SearchErrors ==
    {Errorf(<<"Couldn't GET">>), Errorf(<<"Couldn't load the HTML in goquery">>)}
        \cup {Errorf(<<"Bad GET response", resp.status>>) : resp \in SearchResponses}

\* C13: a cache lookup that finds bytes which do not decode goes on to the
\* search-page request, with the cache as it is, and every error a Check
\* returns is an error of the search-page request.
C13_DecodeFailureIsMiss ==
    /\ [][\A i \in Invs :
             LET bytes == cache[CacheKey(inv[i].imdbID)]
             IN  (/\ inv[i].pc = "cache" /\ inv'[i].pc # "cache"
                  /\ bytes # NoBytes /\ ~FromCacheEntry(bytes).err.nil) =>
                     inv'[i].pc = "search" /\ cache' = cache]_vars
    /\ [](\A i \in Invs : (Finished(i) /\ ~inv[i].out.err.nil) => inv[i].out.err \in SearchErrors)

\* C13 happens: with undecodable bytes under its key a Check fetched the search
\* page and waits for a detail page, and another returned the error of its
\* search-page request.
C13_Witness ==
    \E i, j \in Invs :
        /\ inv[i].pc = "detailWait" /\ cache[CacheKey(inv[i].imdbID)] = JunkBytes
        /\ inv[j].pc = "returned" /\ inv[j].out.err \in SearchErrors
        /\ cache[CacheKey(inv[j].imdbID)] = JunkBytes

\* The hash of a page's magnet: the first tier's, else the second tier's.
PageHash(resp) ==
    IF InfoHashTier1(resp.magnet) # <<>> THEN InfoHashTier1(resp.magnet)
    ELSE InfoHashTier2(resp.magnet)

\* The pages C14 names as skipped: a transport error (no request, no body
\* included), a status other than 200, no magnet, no title, no resolution
\* marker, no hash.
NamedSkip(resp) ==
    \/ resp.failed \/ resp.status # StatusOK \/ ~resp.readable
    \/ resp.magnet = <<>> \/ resp.title = ""
    \/ ~\E marker \in {"720p", "1080p", "2160p"} : Contains(resp.magnet, marker)
    \/ PageHash(resp) = <<>>

\* The pages C14 does not name: a second-tier hash in a magnet without the
\* tracker tail.
NoTailSkip(resp) ==
    /\ ~NamedSkip(resp)
    /\ InfoHashTier1(resp.magnet) = <<>>
    /\ ~Contains(resp.magnet, "\\x26tr=")

\* The list holds one result for each of the pages, in their order.
OnePerPage(list, pages) ==
    /\ Len(list) = Len(pages)
    /\ \A k \in 1..Len(list) :
          /\ list[k].Title = pages[k].title
          /\ list[k].InfoHash = PageHash(pages[k])

\* A Check that is in its loop over the detail pages or at its cache write.
PastSearch(i) == inv[i].pc \in {"detail", "detailWait", "store"}

\* A Check that leaves its loop returns the list of the loop and no error.
ReturnsTheList ==
    \A i \in Invs :
        (PastSearch(i) /\ Returns(i)) =>
            inv'[i].out = [results |-> inv[i].results, err |-> NilErr]

NotNamed(resp) == ~NamedSkip(resp)
NotSkipped(resp) == ~NamedSkip(resp) /\ ~NoTailSkip(resp)

\* C14 (as stated): after the search page the Check returns no error, and its
\* list holds one result for each page that is not among the named ones, in the
\* order of the links.
C14_OneResultPerRemainingPage ==
    /\ [](\A i \in Invs :
             PastSearch(i) => OnePerPage(inv[i].results, SelectSeq(inv[i].pages, NotNamed)))
    /\ [][ReturnsTheList]_vars

\* C14 (amended): the same, a page with a second-tier hash in a magnet without
\* the tracker tail being skipped as well.
C14_OneResultPerPageNotSkipped ==
    /\ [](\A i \in Invs :
             PastSearch(i) => OnePerPage(inv[i].results, SelectSeq(inv[i].pages, NotSkipped)))
    /\ [][ReturnsTheList]_vars

\* C14 happens: a Check is about to return the result of its second and of no
\* other page, the first having answered 404.
C14_Witness ==
    \E i \in Invs :
        /\ inv[i].pc = "store" /\ Len(inv[i].pages) = 2
        /\ inv[i].pages[1].status = 404
        /\ Len(inv[i].results) = 1

\* C15: a Check that returned an error returned no results.
C15_NoResultsWithError ==
    \A i \in Invs : (Finished(i) /\ ~inv[i].out.err.nil) => inv[i].out.results = <<>>

\* C15 happens: one Check returned an error, another a list of results.
C15_Witness ==
    \E i, j \in Invs :
        /\ Finished(i) /\ ~inv[i].out.err.nil
        /\ Finished(j) /\ inv[j].out.err.nil /\ inv[j].out.results # <<>>

\* The lists of results there are: of the Checks, returned, and in the cache.
ResultLists ==
    {inv[i].results : i \in Invs} \cup {inv[i].out.results : i \in Invs}
      \cup {FromCacheEntry(cache[k]).Results : k \in CacheKeys}

\* C16: no result in a list of a Check, in a returned list or in a cache entry
\* has an empty infoHash.
C16_NoEmptyInfoHash ==
    \A list \in ResultLists : \A k \in 1..Len(list) : list[k].InfoHash # <<>>

\* C16 happens: a Check met a page whose second-tier hash is separators only,
\* and is about to store and return the result of its other page.
C16_Witness ==
    \E i \in Invs :
        /\ inv[i].pc = "store" /\ Len(inv[i].results) = 1
        /\ \E k \in 1..Len(inv[i].pages) : inv[i].pages[k].magnet = MagnetDashes

\* The magnets of the pages the Checks were answered with.
Magnets == UNION {{inv[i].pages[k].magnet : k \in 1..Len(inv[i].pages)} : i \in Invs}

\* C17 (as stated): a magnet with "2160p" and "10bit" and without "HDCAM" has
\* the quality "2160p 10bit".
C17_Quality2160p10bit ==
    \A magnet \in Magnets :
        (Contains(magnet, "2160p") /\ Contains(magnet, "10bit") /\ ~Contains(magnet, "HDCAM"))
            => Quality(magnet) = <<"2160p", " 10bit">>

\* C17 (amended): a magnet with "2160p" and "10bit" and without "HDCAM", "720p"
\* and "1080p" has the quality "2160p 10bit", and a result of its page has it.
C17_Quality2160p10bitAlone ==
    \A i \in Invs : \A k \in 1..Len(inv[i].pages) :
        LET magnet == inv[i].pages[k].magnet
        IN  (/\ Contains(magnet, "2160p") /\ Contains(magnet, "10bit")
             /\ ~Contains(magnet, "HDCAM")
             /\ ~Contains(magnet, "720p") /\ ~Contains(magnet, "1080p")) =>
                /\ Quality(magnet) = <<"2160p", " 10bit">>
                /\ \A n \in 1..Len(inv[i].results) :
                      inv[i].results[n].InfoHash = PageHash(inv[i].pages[k])
                          => inv[i].results[n].Quality = <<"2160p", " 10bit">>

\* C17 happens: a Check has the result of a page whose magnet has "2160p" and
\* "10bit" and no other marker.
C17_Witness ==
    \E i \in Invs :
        /\ \E k \in 1..Len(inv[i].pages) : inv[i].pages[k].magnet = Magnet2160p10bit
        /\ \E n \in 1..Len(inv[i].results) :
              /\ inv[i].results[n].InfoHash = <<"GH">>
              /\ inv[i].results[n].Quality = <<"2160p", " 10bit">>

\* Results with fields of the zero value, and lists of them.
SampleResults ==
    {Result("", <<>>, <<>>, <<>>), Result("Big Movie", <<>>, <<"AB">>, <<>>),
     Result("", <<"720p", " 10bit">>, <<>>, MagnetTier1),
     Result("Big Movie", <<"1080p">>, <<"CD">>, MagnetTier2)}

SampleLists == SeqsUpTo(SampleResults, 2)

\* C18: for the list of every Check, for lists whose results have empty
\* fields, for the empty list, and for every time, the bytes of NewCacheEntry
\* decode without error to the list, field by field and in order, and to the
\* time; and the entry a Check writes decodes to the list it returns and the
\* time of the writing.
C18_DecodeEncode ==
    /\ [](\A t \in 0..MaxTime :
            \A data \in SampleLists \cup {inv[i].results : i \in Invs} :
                FromCacheEntry(NewCacheEntry(t, data))
                    = [Results |-> data, Created |-> t, err |-> NilErr])
    /\ [][\A i \in Invs :
            (Returns(i) /\ cache'[CacheKey(inv[i].imdbID)] # cache[CacheKey(inv[i].imdbID)]) =>
                FromCacheEntry(cache'[CacheKey(inv[i].imdbID)])
                    = [Results |-> inv'[i].out.results, Created |-> now', err |-> NilErr]]_vars

\* C18 happens: a Check has written, at a time after the start, an entry with
\* two different results, and the entry decodes to them.
C18_Witness ==
    \E i \in Invs :
        /\ inv[i].pc = "returned" /\ now > 0
        /\ Len(inv[i].out.results) = 2
        /\ inv[i].out.results[1] # inv[i].out.results[2]
        /\ cache[CacheKey(inv[i].imdbID)] # NoBytes
        /\ FromCacheEntry(cache[CacheKey(inv[i].imdbID)]).Results = inv[i].out.results

\* C19: the goroutine of the slow source ends after its Check returned: its
\* outcome is received, or it gives it up.
C19_TaskEnds ==
    \A i \in Invs : (inv[i].pc = "returned") ~> (inv[i].pc = "done")

\* The list of the entry that is in the cache at the start of SpecBusy.
Cached == FromCacheEntry(CachedEntry).Results

\* The returned list holds the results of the cached entry.
Included ==
    /\ ret.err.nil
    /\ \A n \in 1..Len(Cached) : \E k \in 1..Len(ret.results) : ret.results[k] = Cached[n]

\* C20 (as stated): when FindMagnets has returned and the entry of its
\* identifier was, and still is, in the cache and younger than cacheAge, the
\* returned list holds the results of the entry.
C20_FreshEntryIncluded ==
    (/\ mpc = "done"
     /\ cache[CacheKey(callID)] = CachedEntry
     /\ now - FromCacheEntry(CachedEntry).Created < cacheAge) => Included

\* C20 (amended): when FindMagnets has returned, the returned list holds the
\* results of the entry if the Check was a hit and its outcome was received in
\* the grace period, the merged list being the fast lists followed by the
\* entry's; without an outcome received it holds the fast lists only.
C20_HitInTimeIncluded ==
    mpc = "done" =>
        /\ (closeChansOk /\ inv[ibitInv].path = "hit") =>
               /\ Included
               /\ combinedResults = ListsInOrder(SelectSeq(offered, IsFast)) \o Cached
        /\ ~closeChansOk => (FromFastOnly /\ ~Included)

\* C20 happens: the Check of the call waited for the mutex that a Check for
\* the other identifier held, was a hit, and its list was received and returned.
C20_Witness ==
    \E j \in Invs :
        /\ mpc = "done" /\ closeChansOk /\ inv[ibitInv].path = "hit"
        /\ j < ibitInv /\ inv[j].imdbID # callID /\ inv[j].path = "stored"
        /\ ret.results = Cached

\* C21: when the fast channels are closed, every fast task has sent its one
\* outcome and the three were received; when the slow source's channels are
\* closed, its one outcome was received; a channel that is closed is not closed
\* again; and the error message is built from three errors at least.
C21_NoSendAfterCloseNoIndexPastErrs ==
    /\ [](/\ mpc # "idle" =>
                 /\ Len(SelectSeq(offered, IsFast)) + Cardinality(pending) = torrentSiteCount
                 /\ received + Len(resChan) + Len(errChan) = Len(SelectSeq(offered, IsFast))
          /\ FastChansClosed =>
                 pending = {} /\ received = torrentSiteCount /\ resChan = <<>> /\ errChan = <<>>
          /\ IbitChansClosed => inv[ibitInv].pc = "done"
          /\ (FastChansClosed /\ returnErrors) => Len(errs) >= torrentSiteCount
          /\ ~ret.err.nil => Len(ret.err.msg) = torrentSiteCount /\ Len(errs) >= torrentSiteCount)
    /\ [][(FastChansClosed => FastChansClosed') /\ (IbitChansClosed => IbitChansClosed')]_vars

\* C21 happens: every channel is closed and the message was built, the four
\* sources having failed.
C21_Witness ==
    /\ FastChansClosed /\ IbitChansClosed
    /\ ~ret.err.nil /\ Len(errs) = torrentSiteCount + 1

\* The variable the claim gives a setting: the name parseConfig uses, and
\* BASE_URL_IBIT after the pattern of the other base URLs.
ClaimedEnvVar(s) == IF s = "baseURLibit" THEN "BASE_URL_IBIT" ELSE EnvVar(s)

\* The value a text stands for in a setting.
Typed(s, text) == IF s \in IntFlags THEN Atoi(text).n ELSE text

\* The value of the claim: the flag's, else the variable's, else the default.
Claimed(s) ==
    LET name == EnvPrefix(commandLine) \o <<ClaimedEnvVar(s)>>
    IN  IF s \in DOMAIN commandLine THEN Typed(s, commandLine[s])
        ELSE IF name \in DOMAIN environ THEN Typed(s, environ[name])
        ELSE Default(s)

\* C22: when parseConfig has returned, every setting has the value of its flag
\* if the flag was passed, else the value of its environment variable (prefix,
\* "_" appended when missing, and name) if that is set, else its default.
C22_FlagThenEnvThenDefault ==
    cpc = "parsed" => \A s \in Settings : flagValues[s] = Claimed(s)

====
